---- MODULE Spec2Model ----
(***************************************************************************)
(* Model of the RAG orchestration core of "Example RAG":                   *)
(*   - ConversationManager (src/core/conversation_manager.py): the window  *)
(*     storage (memory.chat_memory.messages) and the display log           *)
(*     (session_messages);                                                 *)
(*   - RAGEngine.generate_response (src/core/rag_engine.py): the async     *)
(*     generator that retrieves, assembles the context, streams the        *)
(*     fragments of the answer and commits the exchange.                   *)
(*   - VectorStoreManager (src/core/vector_store.py): the knowledge bases  *)
(*     kept as Chroma collections under derived collection names.          *)
(* Text is a sequence of string tokens; concatenation of text is \o.       *)
(***************************************************************************)
EXTENDS Integers, Sequences, FiniteSets, TLC

(* ---------------------------- bounds ---------------------------------- *)
\* largest configured max_conversation_history that is explored
MaxHistory == 3
\* cap on the number of turns held by the window storage (chat_memory only
\* grows in the code; the guards of the adding actions stop at this length)
MaxStored == 4
\* longest message list handed to load_session_messages
MaxLoad == 3
\* most fragments the generation collaborator produces for one answer
MaxFragments == 2
\* most documents a similarity query returns in the model (at most RetrieverK)
MaxDocs == 1

(* ------------------------- program constants -------------------------- *)
\* search_kwargs={"k": 4}
RetrieverK == 4

(* ------------------------------ inputs -------------------------------- *)
Questions == {<<"q1">>, <<"q2">>}
Answers == {<<"a1">>}
Fragments == {<<"x">>, <<"x", "y">>}
Errors == {"timeout"}

\* a retrieved Document: metadata entries are <<>> when the key is absent
Documents ==
    { [page_content |-> <<"c1">>, source |-> <<"doc1.pdf">>, page |-> <<1>>],
      [page_content |-> <<"c2">>, source |-> <<"doc2.pdf">>, page |-> <<0>>],
      [page_content |-> <<"c3">>, source |-> <<>>, page |-> <<>>] }

RECURSIVE SeqsUpTo(_, _)
SeqsUpTo(S, n) ==
    IF n = 0 THEN {<<>>}
    ELSE LET shorter == SeqsUpTo(S, n - 1)
         IN  shorter \cup {Append(s, x) : s \in {t \in shorter : Len(t) = n - 1}, x \in S}

Min(a, b) == IF a < b THEN a ELSE b

VARIABLES
    max_conversation_history,   \* config.max_conversation_history
    chat_memory,                \* memory.chat_memory.messages (window storage)
    session_messages,           \* ConversationManager.session_messages (display log)
    pc,                         \* position of the generate_response generator
    question,                   \* argument of generate_response
    relevant_docs,              \* local relevant_docs
    retrieval_failed,           \* the similarity query raised
    context,                    \* local context
    chat_history,               \* local chat_history
    llm_prompt,                 \* prompt submitted to llm.astream (<<>> = none)
    llm_out,                    \* fragments the collaborator has produced, in order
    llm_failed,                 \* the collaborator raised in this stream
    response,                   \* local response (full-response buffer)
    chunks,                     \* fragments received by the consumer, in order
    mem0,                       \* window storage when the question was asked
    session_id,                 \* ConversationManager.session_id
    collections,                \* the persisted Chroma collections, by collection name
    generation,                 \* per collection name, how often it has been deleted
    kb_return,                  \* the last VectorStoreManager call and what it returned
    writer,                     \* the concurrent create_knowledge_base calls
    vector_store,               \* RAGEngine.vector_store (a store handle)
    retriever,                  \* RAGEngine.retriever
    queried,                    \* the retriever the similarity query of the question went to
    engine_return,              \* the last auxiliary RAGEngine call and what it returned
    upload_return               \* the last document-upload call and what it returned

memVars == <<chat_memory, session_messages>>
genVars == <<pc, question, relevant_docs, retrieval_failed, context, chat_history,
             llm_prompt, llm_out, llm_failed, response, chunks, mem0, queried>>
storeVars == <<collections, generation, kb_return, writer>>
engineVars == <<vector_store, retriever, engine_return>>
vars == <<max_conversation_history, chat_memory, session_messages, pc, question,
          relevant_docs, retrieval_failed, context, chat_history, llm_prompt,
          llm_out, llm_failed, response, chunks, mem0, session_id,
          collections, generation, kb_return, writer,
          vector_store, retriever, queried, engine_return, upload_return>>

(* ===================== ConversationManager ============================ *)
\* self.memory_size = config.max_conversation_history - 1
memory_size == max_conversation_history - 1

HumanMessage(content) == [role |-> "user", content |-> content]
AIMessage(content) == [role |-> "assistant", content |-> content]

\* Python lst[n:] for n >= 0
DropFirst(lst, n) == SubSeq(lst, Min(n, Len(lst)) + 1, Len(lst))

\* Python lst[-k:] for k >= 0: -0 is 0, so k = 0 selects the whole list
LastSlice(lst, k) ==
    IF k = 0 THEN lst
    ELSE DropFirst(lst, IF Len(lst) > k THEN Len(lst) - k ELSE 0)

\* add_message, window storage: add_user_message then add_ai_message
ChatAfterExchange(chat, human_message, ai_message) ==
    chat \o <<HumanMessage(human_message), AIMessage(ai_message)>>

\* add_message cutting the excess of the display log from its tail
SessionAfterExchange_KeepsOldest(sess, human_message, ai_message) ==
    LET extended == sess \o <<HumanMessage(human_message), AIMessage(ai_message)>>
    IN  SubSeq(extended, 1, Min(Len(extended), max_conversation_history))

\* add_message, display log: extend, then cut the excess from the head
SessionAfterExchange(sess, human_message, ai_message) ==
    LET extended == sess \o <<HumanMessage(human_message), AIMessage(ai_message)>>
        max_messages == max_conversation_history
    IN  IF Len(extended) > max_messages
        THEN DropFirst(extended, Len(extended) - max_messages)
        ELSE extended

\* add_user_message / add_ai_message, display log: append, drop one if over
SessionAfterSingle(sess, msg) ==
    LET appended == Append(sess, msg)
    IN  IF Len(appended) > max_conversation_history
        THEN DropFirst(appended, 1)
        ELSE appended

\* get_conversation_history
get_conversation_history == chat_memory

\* the turns get_context_for_rag formats: messages[-self.memory_size*2:]
WindowTurns(messages) == LastSlice(messages, memory_size * 2)

FormatTurn(message) ==
    IF message.role = "user" THEN <<"Human: ">> \o message.content
    ELSE <<"Assistant: ">> \o message.content

\* "\n".join(parts)
RECURSIVE JoinLines(_)
JoinLines(parts) ==
    IF parts = <<>> THEN <<>>
    ELSE IF Len(parts) = 1 THEN parts[1]
    ELSE parts[1] \o <<"\n">> \o JoinLines(Tail(parts))

\* get_context_for_rag
get_context_for_rag ==
    LET messages == get_conversation_history
    IN  IF messages = <<>> THEN <<>>
        ELSE JoinLines([i \in 1..Len(WindowTurns(messages)) |->
                            FormatTurn(WindowTurns(messages)[i])])

\* get_conversation_summary (the counts)
total_session_messages == Len(session_messages)
total_langchain_messages == Len(get_conversation_history)

Quiescent == pc = "idle"

\* ConversationManager.add_message, explored while the window storage holds
\* at most limit turns afterwards
add_message_within(limit, human_message, ai_message) ==
    /\ Quiescent
    /\ Len(chat_memory) + 2 <= limit
    /\ chat_memory' = ChatAfterExchange(chat_memory, human_message, ai_message)
    /\ session_messages' = SessionAfterExchange(session_messages, human_message, ai_message)
    /\ UNCHANGED <<max_conversation_history, session_id, engineVars, upload_return,
                   storeVars, genVars>>

\* ConversationManager.add_message called by the application
add_message(human_message, ai_message) ==
    add_message_within(MaxStored, human_message, ai_message)

\* the statements of add_message's try block that call into another object
FaultPoints == {"add_user_message", "add_ai_message", "extend"}

\* ConversationManager.add_message when the statement named by point raises:
\* the statements before it have run, the except clause logs and returns
add_message_raises(human_message, ai_message, point) ==
    /\ Quiescent
    /\ Len(chat_memory) + 2 <= MaxStored
    /\ chat_memory' =
          CASE point = "add_user_message" -> chat_memory
            [] point = "add_ai_message" -> Append(chat_memory, HumanMessage(human_message))
            [] point = "extend" ->
                 ChatAfterExchange(chat_memory, human_message, ai_message)
    /\ session_messages' = session_messages
    /\ UNCHANGED <<max_conversation_history, session_id, engineVars, upload_return,
                   storeVars, genVars>>

\* ConversationManager.add_user_message
add_user_message(message) ==
    /\ Quiescent
    /\ Len(chat_memory) + 1 <= MaxStored
    /\ chat_memory' = Append(chat_memory, HumanMessage(message))
    /\ session_messages' = SessionAfterSingle(session_messages, HumanMessage(message))
    /\ UNCHANGED <<max_conversation_history, session_id, engineVars, upload_return,
                   storeVars, genVars>>

\* ConversationManager.add_ai_message
add_ai_message(message) ==
    /\ Quiescent
    /\ Len(chat_memory) + 1 <= MaxStored
    /\ chat_memory' = Append(chat_memory, AIMessage(message))
    /\ session_messages' = SessionAfterSingle(session_messages, AIMessage(message))
    /\ UNCHANGED <<max_conversation_history, session_id, engineVars, upload_return,
                   storeVars, genVars>>

\* ConversationManager.clear_conversation
clear_conversation ==
    /\ Quiescent
    /\ chat_memory' = <<>>
    /\ session_messages' = <<>>
    /\ UNCHANGED <<max_conversation_history, session_id, engineVars, upload_return,
                   storeVars, genVars>>

\* self.session_id = None
NoSession == "None"
SessionIds == {"s1", "s2"}

\* ConversationManager.set_session_id
set_session_id(id) ==
    /\ Quiescent
    /\ session_id' = id
    /\ UNCHANGED <<max_conversation_history, engineVars, upload_return, memVars,
                   storeVars, genVars>>

\* contents of the messages of one role, in order
RECURSIVE ContentsOf(_, _)
ContentsOf(messages, role) ==
    IF messages = <<>> THEN <<>>
    ELSE IF Head(messages).role = role
         THEN <<Head(messages).content>> \o ContentsOf(Tail(messages), role)
         ELSE ContentsOf(Tail(messages), role)

\* the loop "for i in range(min_length): self.add_message(...)" on the window storage
RECURSIVE ReplayChat(_, _, _, _)
ReplayChat(chat, user_messages, ai_messages, n) ==
    IF n = 0 THEN chat
    ELSE ChatAfterExchange(ReplayChat(chat, user_messages, ai_messages, n - 1),
                           user_messages[n], ai_messages[n])

\* the same loop on the display log
RECURSIVE ReplaySession(_, _, _, _)
ReplaySession(sess, user_messages, ai_messages, n) ==
    IF n = 0 THEN sess
    ELSE SessionAfterExchange(ReplaySession(sess, user_messages, ai_messages, n - 1),
                              user_messages[n], ai_messages[n])

\* load_session_messages, window storage
LoadedChat(messages) ==
    LET user_messages == ContentsOf(messages, "user")
        ai_messages == ContentsOf(messages, "assistant")
        min_length == Min(Len(user_messages), Len(ai_messages))
        replayed == ReplayChat(<<>>, user_messages, ai_messages, min_length)
    IN  IF Len(user_messages) > min_length
        THEN Append(replayed, HumanMessage(user_messages[Len(user_messages)]))
        ELSE replayed

\* load_session_messages, display log: the pending user turn is appended as is
LoadedSession(messages) ==
    LET user_messages == ContentsOf(messages, "user")
        ai_messages == ContentsOf(messages, "assistant")
        min_length == Min(Len(user_messages), Len(ai_messages))
        replayed == ReplaySession(<<>>, user_messages, ai_messages, min_length)
    IN  IF Len(user_messages) > min_length
        THEN Append(replayed, HumanMessage(user_messages[Len(user_messages)]))
        ELSE replayed

\* ConversationManager.get_session_messages: a copy of the display log
get_session_messages == session_messages

\* the message lists handed to load_session_messages: exported turns
LoadInputs ==
    SeqsUpTo({HumanMessage(c) : c \in Questions} \cup {AIMessage(c) : c \in Answers},
             MaxLoad)

\* ConversationManager.load_session_messages
load_session_messages(messages) ==
    /\ Quiescent
    /\ chat_memory' = LoadedChat(messages)
    /\ session_messages' = LoadedSession(messages)
    /\ UNCHANGED <<max_conversation_history, session_id, engineVars, upload_return,
                   storeVars, genVars>>

(* ============================ RAGEngine =============================== *)
\* the fixed sentinel of _prepare_context
NoContextSentinel == <<"No relevant context found in the knowledge base.">>

\* one entry of context_parts
ContextPart(i, doc) ==
    LET source == IF doc.source = <<>> THEN <<"Document ", ToString(i)>> ELSE doc.source
        page_info == IF doc.page # <<>> /\ doc.page[1] # 0
                     THEN <<" (Page ", ToString(doc.page[1]), ")">>
                     ELSE <<>>
    IN  <<"[Source ", ToString(i), " - ">> \o source \o page_info \o <<"]:\n">>
            \o doc.page_content \o <<"\n">>

\* _prepare_context returning the empty string for an empty result set
_prepare_context_EmptyString(documents) ==
    IF documents = <<>> THEN <<>>
    ELSE JoinLines([i \in 1..Len(documents) |-> ContextPart(i, documents[i])])

\* RAGEngine._prepare_context
_prepare_context(documents) ==
    IF documents = <<>> THEN NoContextSentinel
    ELSE JoinLines([i \in 1..Len(documents) |-> ContextPart(i, documents[i])])

\* self.prompt.format(question=..., context=..., chat_history=...)
FormatPrompt(q, ctx, history) ==
    <<"You are a helpful AI assistant ... Context from documents:\n">> \o ctx
        \o <<"\n\nConversation history:\n">> \o history
        \o <<"\n\nCurrent question: ">> \o q
        \o <<"\n\nInstructions: ... Answer:">>

\* the fragment the inner generator yields when the collaborator raises
StreamErrorFragment(e) == <<"Error generating response: ", e>>

\* vector_store.as_retriever(search_type="similarity", search_kwargs={"k": 4})
as_retriever(store) == [vector_store |-> store, search_type |-> "similarity", k |-> RetrieverK]

\* no similarity query made for the question yet
NoRetriever == [vector_store |-> <<>>, search_type |-> "none", k |-> 0]

\* what a similarity query can return: at most RetrieverK documents
RetrievalResults == SeqsUpTo(Documents, Min(MaxDocs, RetrieverK))

NoQuestion ==
    /\ question' = <<>>
    /\ relevant_docs' = <<>>
    /\ retrieval_failed' = FALSE
    /\ context' = <<>>
    /\ chat_history' = <<>>
    /\ llm_prompt' = <<>>
    /\ llm_out' = <<>>
    /\ llm_failed' = FALSE
    /\ response' = <<>>
    /\ chunks' = <<>>
    /\ mem0' = <<>>
    /\ queried' = NoRetriever

\* the consumer starts iterating generate_response(q): the generator runs to
\* its first await, the similarity query
Ask(q) ==
    /\ pc = "idle"
    /\ Len(chat_memory) + 2 <= MaxStored
    /\ pc' = "retrieving"
    /\ question' = q
    /\ mem0' = chat_memory
    /\ UNCHANGED <<max_conversation_history, session_id, engineVars, upload_return,
                   storeVars, memVars, relevant_docs, retrieval_failed, context,
                   chat_history, llm_prompt, llm_out, llm_failed, response, chunks,
                   queried>>

\* _retrieve_documents returns (the documents, or [] when the query raised),
\* then _prepare_context and get_context_for_rag
RetrieveAndAssemble(result, failed) ==
    /\ pc = "retrieving"
    /\ Len(result) <= retriever.k
    /\ queried' = retriever
    /\ relevant_docs' = IF failed THEN <<>> ELSE result
    /\ retrieval_failed' = failed
    /\ context' = _prepare_context(relevant_docs')
    /\ chat_history' = get_context_for_rag
    /\ pc' = "assembled"
    /\ UNCHANGED <<max_conversation_history, session_id, engineVars, upload_return,
                   storeVars, memVars, question, llm_prompt, llm_out, llm_failed,
                   response, chunks, mem0>>

\* response = "" and the inner generator formats the prompt and opens llm.astream
SubmitPrompt ==
    /\ pc = "assembled"
    /\ llm_prompt' = FormatPrompt(question, context, chat_history)
    /\ response' = <<>>
    /\ pc' = "streaming"
    /\ UNCHANGED <<max_conversation_history, session_id, engineVars, upload_return,
                   storeVars, memVars, question, relevant_docs, retrieval_failed,
                   context, chat_history, llm_out, llm_failed, chunks, mem0, queried>>

\* StreamFragment accumulating the new fragment in front of the buffer
StreamFragment_Prepend(f) ==
    /\ pc = "streaming"
    /\ ~llm_failed
    /\ Len(chunks) < MaxFragments
    /\ llm_out' = Append(llm_out, f)
    /\ response' = f \o response
    /\ chunks' = Append(chunks, f)
    /\ pc' = "suspended"
    /\ UNCHANGED <<max_conversation_history, session_id, engineVars, upload_return,
                   storeVars, memVars, question, relevant_docs, retrieval_failed,
                   context, chat_history, llm_prompt, llm_failed, mem0, queried>>

\* the collaborator produces a fragment: response += chunk; yield chunk
StreamFragment(f) ==
    /\ pc = "streaming"
    /\ ~llm_failed
    /\ Len(chunks) < MaxFragments
    /\ llm_out' = Append(llm_out, f)
    /\ response' = response \o f
    /\ chunks' = Append(chunks, f)
    /\ pc' = "suspended"
    /\ UNCHANGED <<max_conversation_history, session_id, engineVars, upload_return,
                   storeVars, memVars, question, relevant_docs, retrieval_failed,
                   context, chat_history, llm_prompt, llm_failed, mem0, queried>>

\* StreamError committing the exchange before the error fragment is yielded
StreamError_CommitBeforeYield(e) ==
    /\ pc = "streaming"
    /\ ~llm_failed
    /\ llm_failed' = TRUE
    /\ response' = response \o StreamErrorFragment(e)
    /\ chunks' = Append(chunks, StreamErrorFragment(e))
    /\ chat_memory' = ChatAfterExchange(chat_memory, question, response')
    /\ session_messages' = SessionAfterExchange(session_messages, question, response')
    /\ pc' = "suspended"
    /\ UNCHANGED <<max_conversation_history, session_id, engineVars, upload_return,
                   storeVars, question, relevant_docs, retrieval_failed, context,
                   chat_history, llm_prompt, llm_out, mem0, queried>>

\* StreamError yielding the error fragment without accumulating it
StreamError_NotAccumulated(e) ==
    /\ pc = "streaming"
    /\ ~llm_failed
    /\ llm_failed' = TRUE
    /\ chunks' = Append(chunks, StreamErrorFragment(e))
    /\ pc' = "suspended"
    /\ UNCHANGED <<max_conversation_history, session_id, engineVars, upload_return,
                   storeVars, memVars, question, relevant_docs, retrieval_failed,
                   context, chat_history, llm_prompt, llm_out, response, mem0, queried>>

\* the collaborator raises: the inner generator yields the error fragment,
\* which is accumulated and yielded like any other.  (The except clause of
\* generate_response itself is entered only when a statement of its try body
\* raises an Exception; _retrieve_documents, get_context_for_rag,
\* _stream_llm_response and add_message all catch their own, and text
\* fragments make "response += chunk" total, so no action enters it.)
StreamError(e) ==
    /\ pc = "streaming"
    /\ ~llm_failed
    /\ llm_failed' = TRUE
    /\ response' = response \o StreamErrorFragment(e)
    /\ chunks' = Append(chunks, StreamErrorFragment(e))
    /\ pc' = "suspended"
    /\ UNCHANGED <<max_conversation_history, session_id, engineVars, upload_return,
                   storeVars, memVars, question, relevant_docs, retrieval_failed,
                   context, chat_history, llm_prompt, llm_out, mem0, queried>>

\* the consumer asks for the next fragment
ConsumerResume ==
    /\ pc = "suspended"
    /\ pc' = "streaming"
    /\ UNCHANGED <<max_conversation_history, session_id, engineVars, upload_return,
                   storeVars, memVars, question, relevant_docs, retrieval_failed,
                   context, chat_history, llm_prompt, llm_out, llm_failed, response,
                   chunks, mem0, queried>>

\* StreamExhausted committing the exchange twice
StreamExhausted_CommitTwice ==
    /\ pc = "streaming"
    /\ chat_memory' = ChatAfterExchange(ChatAfterExchange(chat_memory, question, response),
                                        question, response)
    /\ session_messages' =
           SessionAfterExchange(SessionAfterExchange(session_messages, question, response),
                                question, response)
    /\ pc' = "done"
    /\ UNCHANGED <<max_conversation_history, session_id, engineVars, upload_return,
                   storeVars, question, relevant_docs, retrieval_failed, context,
                   chat_history, llm_prompt, llm_out, llm_failed, response, chunks,
                   mem0, queried>>

\* the inner generator is exhausted: add_message(question, response), and the
\* generator ends
StreamExhausted ==
    /\ pc = "streaming"
    /\ chat_memory' = ChatAfterExchange(chat_memory, question, response)
    /\ session_messages' = SessionAfterExchange(session_messages, question, response)
    /\ pc' = "done"
    /\ UNCHANGED <<max_conversation_history, session_id, engineVars, upload_return,
                   storeVars, question, relevant_docs, retrieval_failed, context,
                   chat_history, llm_prompt, llm_out, llm_failed, response, chunks,
                   mem0, queried>>

\* the consumer closes or abandons the generator while it is suspended at the
\* yield: GeneratorExit is not an Exception, the except clause does not run
ConsumerClose ==
    /\ pc = "suspended"
    /\ pc' = "closed"
    /\ UNCHANGED <<max_conversation_history, session_id, engineVars, upload_return,
                   storeVars, memVars, question, relevant_docs, retrieval_failed,
                   context, chat_history, llm_prompt, llm_out, llm_failed, response,
                   chunks, mem0, queried>>

\* the consumer is done with the generator (collect_response returns)
CollectReturn ==
    /\ pc \in {"done", "closed"}
    /\ pc' = "idle"
    /\ NoQuestion
    /\ UNCHANGED <<max_conversation_history, session_id, engineVars, upload_return,
                   storeVars, memVars>>

(* ---- the auxiliary operations of the engine ---- *)
\* the store handles a RAGEngine is built on or rebound to
InitialVectorStore == <<"k", "b", "1">>
VectorStores == {<<"k", "b", "1">>, <<"d", "o", "c">>}

\* what the last auxiliary call was, its argument, the retriever it queried
\* and what came back (raised: an exception was raised inside the call)
EngineReturned(op, argument, used, raised, value) ==
    [op |-> op, argument |-> argument, retriever |-> used, raised |-> raised,
     value |-> value]

NoEngineReturn == EngineReturned("none", <<>>, NoRetriever, FALSE, <<>>)

\* update_vector_store that also clears the conversation
update_vector_store_ClearsConversation(store, raised) ==
    /\ vector_store' = store
    /\ retriever' = as_retriever(store)
    /\ engine_return' = EngineReturned("update_vector_store", store, NoRetriever, raised, <<>>)
    /\ chat_memory' = <<>>
    /\ session_messages' = <<>>
    /\ UNCHANGED <<max_conversation_history, session_id, upload_return, storeVars,
                   genVars>>

\* RAGEngine.update_vector_store; raised: ConversationalRetrievalChain.from_llm
\* raises, after the two assignments
update_vector_store(store, raised) ==
    /\ vector_store' = store
    /\ retriever' = as_retriever(store)
    /\ engine_return' = EngineReturned("update_vector_store", store, NoRetriever, raised, <<>>)
    /\ UNCHANGED <<max_conversation_history, session_id, upload_return, storeVars,
                   memVars, genVars>>

\* RAGEngine.get_source_documents; raised: the similarity query raises
get_source_documents(q, result, raised) ==
    /\ Len(result) <= retriever.k
    /\ engine_return' = EngineReturned("get_source_documents", q, retriever, raised,
                                       IF raised THEN <<>> ELSE result)
    /\ UNCHANGED <<max_conversation_history, session_id, upload_return, storeVars,
                   memVars, genVars, vector_store, retriever>>

(* ======================= VectorStoreManager =========================== *)
\* A name is a sequence of one-character strings.  "U+0130" stands for the
\* one character LATIN CAPITAL LETTER I WITH DOT ABOVE and "U+0307" for the
\* one character COMBINING DOT ABOVE.  The characters of the model, in
\* code-point order (the order Python compares strings by):
CodePointOrder ==
    <<" ", "!", "#", "$", "&", "-", "0", "1", "2", "3", "4", "5", "6", "7",
      "8", "9", "@", "A", "B", "C", "D", "E", "F", "G", "H", "I", "J", "K",
      "L", "M", "N", "O", "P", "Q", "R", "S", "T", "U", "V", "W", "X", "Y",
      "Z", "_", "a", "b", "c", "d", "e", "f", "g", "h", "i", "j", "k", "l",
      "m", "n", "o", "p", "q", "r", "s", "t", "u", "v", "w", "x", "y", "z",
      "U+0130", "U+0307">>

UpperCase ==
    {"A", "B", "C", "D", "E", "F", "G", "H", "I", "J", "K", "L", "M", "N",
     "O", "P", "Q", "R", "S", "T", "U", "V", "W", "X", "Y", "Z", "U+0130"}
LowerCase ==
    {"a", "b", "c", "d", "e", "f", "g", "h", "i", "j", "k", "l", "m", "n",
     "o", "p", "q", "r", "s", "t", "u", "v", "w", "x", "y", "z"}
Digits == {"0", "1", "2", "3", "4", "5", "6", "7", "8", "9"}

\* str.isalnum on one character (U+0130 is a letter, U+0307 is a mark)
IsAlnum(c) == c \in UpperCase \/ c \in LowerCase \/ c \in Digits

\* the one-character case mappings
Lower(c) ==
    CASE c = "A" -> "a" [] c = "B" -> "b" [] c = "C" -> "c" [] c = "D" -> "d"
      [] c = "E" -> "e" [] c = "F" -> "f" [] c = "G" -> "g" [] c = "H" -> "h"
      [] c = "I" -> "i" [] c = "J" -> "j" [] c = "K" -> "k" [] c = "L" -> "l"
      [] c = "M" -> "m" [] c = "N" -> "n" [] c = "O" -> "o" [] c = "P" -> "p"
      [] c = "Q" -> "q" [] c = "R" -> "r" [] c = "S" -> "s" [] c = "T" -> "t"
      [] c = "U" -> "u" [] c = "V" -> "v" [] c = "W" -> "w" [] c = "X" -> "x"
      [] c = "Y" -> "y" [] c = "Z" -> "z"
      [] OTHER -> c

Upper(c) ==
    CASE c = "a" -> "A" [] c = "b" -> "B" [] c = "c" -> "C" [] c = "d" -> "D"
      [] c = "e" -> "E" [] c = "f" -> "F" [] c = "g" -> "G" [] c = "h" -> "H"
      [] c = "i" -> "I" [] c = "j" -> "J" [] c = "k" -> "K" [] c = "l" -> "L"
      [] c = "m" -> "M" [] c = "n" -> "N" [] c = "o" -> "O" [] c = "p" -> "P"
      [] c = "q" -> "Q" [] c = "r" -> "R" [] c = "s" -> "S" [] c = "t" -> "T"
      [] c = "u" -> "U" [] c = "v" -> "V" [] c = "w" -> "W" [] c = "x" -> "X"
      [] c = "y" -> "Y" [] c = "z" -> "Z"
      [] OTHER -> c

\* str.lower on one character: U+0130 lower-cases to the two characters
\* "i" and U+0307
LowerOf(c) == IF c = "U+0130" THEN <<"i", "U+0307">> ELSE <<Lower(c)>>

\* str.strip: drop the leading and the trailing blanks
RECURSIVE LStrip(_)
LStrip(name) ==
    IF name # <<>> /\ Head(name) = " " THEN LStrip(Tail(name)) ELSE name

RECURSIVE RStrip(_)
RStrip(name) ==
    IF name # <<>> /\ name[Len(name)] = " "
    THEN RStrip(SubSeq(name, 1, Len(name) - 1))
    ELSE name

Strip(name) == RStrip(LStrip(name))

\* c if c.isalnum() or c in "-_" else "_", for each c
RECURSIVE ReplaceOthers(_)
ReplaceOthers(text) ==
    IF text = <<>> THEN <<>>
    ELSE <<IF IsAlnum(Head(text)) \/ Head(text) \in {"-", "_"} THEN Head(text) ELSE "_">>
             \o ReplaceOthers(Tail(text))

\* str.lower on a text
RECURSIVE LowerAll(_)
LowerAll(text) ==
    IF text = <<>> THEN <<>> ELSE LowerOf(Head(text)) \o LowerAll(Tail(text))

\* _sanitize_collection_name that also prefixes a name in which a character
\* was replaced
_sanitize_collection_name_PrefixOnReplacement(name) ==
    LET sanitized == ReplaceOthers(Strip(name))
    IN  IF sanitized = <<>>
        THEN <<"d", "e", "f", "a", "u", "l", "t", "_", "k", "b">>
        ELSE IF ~IsAlnum(sanitized[1]) \/ sanitized # Strip(name)
        THEN LowerAll(<<"k", "b", "_">> \o sanitized)
        ELSE LowerAll(sanitized)

\* VectorStoreManager._sanitize_collection_name
_sanitize_collection_name(name) ==
    LET sanitized == ReplaceOthers(Strip(name))
    IN  IF sanitized = <<>>
        THEN <<"d", "e", "f", "a", "u", "l", "t", "_", "k", "b">>
        ELSE IF ~IsAlnum(sanitized[1])
        THEN LowerAll(<<"k", "b", "_">> \o sanitized)
        ELSE LowerAll(sanitized)

\* str.title: a cased character is upper-cased when the character before it
\* is not cased, lower-cased otherwise
RECURSIVE TitleFrom(_, _)
TitleFrom(text, previous_is_cased) ==
    IF text = <<>> THEN <<>>
    ELSE IF Head(text) \in UpperCase \cup LowerCase
    THEN (IF previous_is_cased THEN LowerOf(Head(text)) ELSE <<Upper(Head(text))>>)
             \o TitleFrom(Tail(text), TRUE)
    ELSE <<Head(text)>> \o TitleFrom(Tail(text), FALSE)

Title(text) == TitleFrom(text, FALSE)

\* display_name = collection_name.replace('_', ' ').title()
DisplayName(collection_name) ==
    Title([i \in 1..Len(collection_name) |->
              IF collection_name[i] = "_" THEN " " ELSE collection_name[i]])

\* position of a character in the code-point order
CodePoint(c) == CHOOSE i \in 1..Len(CodePointOrder) : CodePointOrder[i] = c

\* a < b for Python strings
RECURSIVE StrLess(_, _)
StrLess(a, b) ==
    IF b = <<>> THEN FALSE
    ELSE IF a = <<>> THEN TRUE
    ELSE IF Head(a) = Head(b) THEN StrLess(Tail(a), Tail(b))
    ELSE CodePoint(Head(a)) < CodePoint(Head(b))

\* sorted(knowledge_bases, key=lambda x: x['name'])
RECURSIVE SortedByName(_)
SortedByName(entries) ==
    IF entries = {} THEN <<>>
    ELSE LET first == CHOOSE e \in entries :
                          \A f \in entries : f = e \/ ~StrLess(f.name, e.name)
         IN  <<first>> \o SortedByName(entries \ {first})

(* ---- the Chroma collaborator: persisted collections, by name ---- *)
\* Chroma(collection_name=..., persist_directory=...): get or create
GetOrCreate(cols, key) ==
    [k \in DOMAIN cols \cup {key} |-> IF k \in DOMAIN cols THEN cols[k] ELSE <<>>]

\* collection.count()
Count(cols, key) == Len(cols[key])

\* _collection.delete(): the collection is gone from the store
DeleteCollection(cols, key) == [k \in DOMAIN cols \ {key} |-> cols[k]]

\* vector_store.add_documents(documents): embed and store, in order
AddDocuments(cols, key, documents) == [cols EXCEPT ![key] = @ \o documents]

\* the knowledge bases of a store: its collections that hold a chunk
KnowledgeBases(cols) ==
    [k \in {j \in DOMAIN cols : Len(cols[j]) > 0} |-> cols[k]]

(* ---- inputs ---- *)
\* most chunks in one create or append call
MaxChunks == 2
\* cap on the chunks of one collection (append only grows a collection)
MaxCollectionSize == 2

ChunkIds == {"d1", "d2"}
ChunkLists == SeqsUpTo(ChunkIds, MaxChunks)

\* the chunk lists handed to add_documents_to_knowledge_base: the caller
\* (_process_documents) returns before the call when it has no chunk
AppendLists == ChunkLists \ {<<>>}

\* "", " ", "KB1", "kb1", "Doc"
KBNames == { <<>>, <<" ">>, <<"K", "B", "1">>, <<"k", "b", "1">>, <<"D", "o", "c">> }

\* the collection names the inputs derive (knowledge_base_exists derives again)
CollectionNames ==
    {_sanitize_collection_name(n) : n \in KBNames}
        \cup {_sanitize_collection_name(_sanitize_collection_name(n)) : n \in KBNames}

\* "Notes!", "Q&A": names typed into the upload page that hold a character
\* _sanitize_collection_name replaces
SelectorNames == { <<"N", "o", "t", "e", "s", "!">>, <<"Q", "&", "A">> }

SelectorCollectionNames == {_sanitize_collection_name(n) : n \in SelectorNames}

\* the display names list_knowledge_bases can report
ListedNames == {DisplayName(k) : k \in CollectionNames \cup SelectorCollectionNames}

\* _sanitize_collection_name on the names of the model, derived once
DerivedNames ==
    [n \in KBNames \cup CollectionNames \cup SelectorNames \cup SelectorCollectionNames
            \cup ListedNames \cup {_sanitize_collection_name(l) : l \in ListedNames}
        |-> _sanitize_collection_name(n)]

collection_name_of(name) == DerivedNames[name]

NoCollections == [k \in {} |-> <<>>]

\* what the persist directory may hold at start-up: nothing, or the empty
\* collection a create_knowledge_base left when it died before add_documents
PersistedStores == {NoCollections, GetOrCreate(NoCollections, <<"k", "b", "1">>)}

\* knowledge_base_exists that leaves the collection it opened in the store
ProbeStore_LeavesEmpty(cols, name) ==
    GetOrCreate(cols, collection_name_of(name))

\* knowledge_base_exists: the store it leaves and the value it returns
ProbeStore(cols, name) ==
    LET collection_name == collection_name_of(name)
        temp_chroma == GetOrCreate(cols, collection_name)
    IN  IF Count(temp_chroma, collection_name) = 0
        THEN DeleteCollection(temp_chroma, collection_name)
        ELSE temp_chroma

ProbeValue(cols, name) ==
    LET collection_name == collection_name_of(name)
    IN  Count(GetOrCreate(cols, collection_name), collection_name) > 0

\* get_knowledge_base: the store it leaves and the handle it returns
\* (the collection name; NoHandle for None)
NoHandle == <<>>

OpenStore(cols, name) ==
    LET collection_name == collection_name_of(name)
        probed == ProbeStore(cols, collection_name)
    IN  IF ProbeValue(cols, collection_name)
        THEN GetOrCreate(probed, collection_name)
        ELSE probed

OpenHandle(cols, name) ==
    LET collection_name == collection_name_of(name)
    IN  IF ProbeValue(cols, collection_name) THEN collection_name ELSE NoHandle

\* chunk count reported through a handle
HandleCount(cols, handle) == Count(cols, handle)

\* one entry of list_knowledge_bases
KnowledgeBaseEntry(cols, collection_name) ==
    [name |-> DisplayName(collection_name),
     collection_name |-> collection_name,
     document_count |-> Count(cols, collection_name),
     created_at |-> 0]

\* VectorStoreManager.list_knowledge_bases
list_knowledge_bases(cols) ==
    SortedByName({KnowledgeBaseEntry(cols, k) : k \in {j \in DOMAIN cols : Count(cols, j) > 0}})

(* ---- the operations, one caller at a time ---- *)
\* what the last call was and what came back (value; handle for a store handle)
Returned(op, name, documents, value, handle) ==
    [op |-> op, name |-> name, documents |-> documents, value |-> value,
     handle |-> handle]

NoReturn == Returned("none", <<>>, <<>>, "none", NoHandle)

\* the ValueErrors of create_knowledge_base
CreateErrors == {"invalid name", "already exists", "no documents"}

\* create_knowledge_base that builds its Chroma object before it looks at
\* the documents
create_knowledge_base_ConstructsFirst(name, documents) ==
    LET collection_name == collection_name_of(name)
        probed == ProbeStore(collections, collection_name)
    IN  /\ Len(documents) <= MaxCollectionSize
        /\ IF Strip(name) = <<>>
           THEN /\ collections' = collections
                /\ kb_return' = Returned("create", name, documents, "invalid name", NoHandle)
           ELSE IF ProbeValue(collections, collection_name)
           THEN /\ collections' = probed
                /\ kb_return' = Returned("create", name, documents, "already exists", NoHandle)
           ELSE IF documents = <<>>
           THEN /\ collections' = GetOrCreate(probed, collection_name)
                /\ kb_return' = Returned("create", name, documents, "no documents", NoHandle)
           ELSE /\ collections' = AddDocuments(GetOrCreate(probed, collection_name),
                                               collection_name, documents)
                /\ kb_return' = Returned("create", name, documents, "ok", collection_name)
        /\ UNCHANGED <<max_conversation_history, session_id, engineVars, upload_return,
                       memVars, genVars, generation, writer>>

\* VectorStoreManager.create_knowledge_base
create_knowledge_base(name, documents) ==
    LET collection_name == collection_name_of(name)
        probed == ProbeStore(collections, collection_name)
    IN  /\ Len(documents) <= MaxCollectionSize
        /\ IF Strip(name) = <<>>
           THEN /\ collections' = collections
                /\ kb_return' = Returned("create", name, documents, "invalid name", NoHandle)
           ELSE IF ProbeValue(collections, collection_name)
           THEN /\ collections' = probed
                /\ kb_return' = Returned("create", name, documents, "already exists", NoHandle)
           ELSE IF documents = <<>>
           THEN /\ collections' = probed
                /\ kb_return' = Returned("create", name, documents, "no documents", NoHandle)
           ELSE /\ collections' = AddDocuments(GetOrCreate(probed, collection_name),
                                               collection_name, documents)
                /\ kb_return' = Returned("create", name, documents, "ok", collection_name)
        /\ UNCHANGED <<max_conversation_history, session_id, engineVars, upload_return,
                       memVars, genVars, generation, writer>>

\* VectorStoreManager.knowledge_base_exists
knowledge_base_exists(name) ==
    /\ collections' = ProbeStore(collections, name)
    /\ kb_return' = Returned("exists", name, <<>>,
                             IF ProbeValue(collections, name) THEN "True" ELSE "False",
                             NoHandle)
    /\ UNCHANGED <<max_conversation_history, session_id, engineVars, upload_return,
                   memVars, genVars, generation, writer>>

\* get_knowledge_base that builds the Chroma object without asking whether
\* the knowledge base exists
get_knowledge_base_NoExistenceCheck(name) ==
    /\ collections' = GetOrCreate(collections, collection_name_of(name))
    /\ kb_return' = Returned("open", name, <<>>, "handle", collection_name_of(name))
    /\ UNCHANGED <<max_conversation_history, session_id, engineVars, upload_return,
                   memVars, genVars, generation, writer>>

\* VectorStoreManager.get_knowledge_base
get_knowledge_base(name) ==
    /\ collections' = OpenStore(collections, name)
    /\ kb_return' = Returned("open", name, <<>>,
                             IF OpenHandle(collections, name) = NoHandle
                             THEN "None" ELSE "handle",
                             OpenHandle(collections, name))
    /\ UNCHANGED <<max_conversation_history, session_id, engineVars, upload_return,
                   memVars, genVars, generation, writer>>

\* delete_knowledge_base that reports success and leaves the collection
delete_knowledge_base_NoRemoval(name) ==
    LET collection_name == collection_name_of(name)
        probed == ProbeStore(collections, collection_name)
    IN  /\ IF ~ProbeValue(collections, collection_name)
           THEN /\ collections' = probed
                /\ kb_return' = Returned("delete", name, <<>>, "False", NoHandle)
           ELSE /\ collections' = GetOrCreate(probed, collection_name)
                /\ kb_return' = Returned("delete", name, <<>>, "True", NoHandle)
        /\ UNCHANGED <<max_conversation_history, session_id, engineVars, upload_return,
                       memVars, genVars, generation, writer>>

\* VectorStoreManager.delete_knowledge_base
delete_knowledge_base(name) ==
    LET collection_name == collection_name_of(name)
        probed == ProbeStore(collections, collection_name)
    IN  /\ IF ~ProbeValue(collections, collection_name)
           THEN /\ collections' = probed
                /\ kb_return' = Returned("delete", name, <<>>, "False", NoHandle)
           ELSE /\ collections' = DeleteCollection(GetOrCreate(probed, collection_name),
                                                   collection_name)
                /\ kb_return' = Returned("delete", name, <<>>, "True", NoHandle)
        /\ UNCHANGED <<max_conversation_history, session_id, engineVars, upload_return,
                       memVars, genVars, generation, writer>>

\* add_documents_to_knowledge_base that adds through a Chroma object built
\* without get_knowledge_base
add_documents_to_knowledge_base_NoExistenceCheck(name, documents) ==
    LET collection_name == collection_name_of(name)
        opened == GetOrCreate(collections, collection_name)
    IN  /\ Count(opened, collection_name) + Len(documents) <= MaxCollectionSize
        /\ collections' = AddDocuments(opened, collection_name, documents)
        /\ kb_return' = Returned("append", name, documents, "True", NoHandle)
        /\ UNCHANGED <<max_conversation_history, session_id, engineVars, upload_return,
                       memVars, genVars, generation, writer>>

\* VectorStoreManager.add_documents_to_knowledge_base
add_documents_to_knowledge_base(name, documents) ==
    LET handle == OpenHandle(collections, name)
        opened == OpenStore(collections, name)
    IN  /\ IF handle = NoHandle
           THEN /\ collections' = opened
                /\ kb_return' = Returned("append", name, documents, "False", NoHandle)
           ELSE /\ Count(opened, handle) + Len(documents) <= MaxCollectionSize
                /\ collections' = AddDocuments(opened, handle, documents)
                /\ kb_return' = Returned("append", name, documents, "True", NoHandle)
        /\ UNCHANGED <<max_conversation_history, session_id, engineVars, upload_return,
                       memVars, genVars, generation, writer>>

(* ---- the callers that pass a listed name back ---- *)
\* get_available_knowledge_bases: the names of list_knowledge_bases
get_available_knowledge_bases(cols) ==
    {DisplayName(k) : k \in {j \in DOMAIN cols : Count(cols, j) > 0}}

\* _get_rag_engine for the knowledge base selected in the sidebar
_get_rag_engine(selected_kb) ==
    /\ selected_kb \in get_available_knowledge_bases(collections)
    /\ get_knowledge_base(selected_kb)

\* _delete_knowledge_base, confirmed, from the Delete button of a listed entry
_delete_knowledge_base(name) ==
    /\ name \in get_available_knowledge_bases(collections)
    /\ delete_knowledge_base(name)

(* ========================= DocumentProcessor ========================== *)
\* config.max_file_size_mb
max_file_size_mb == 200

\* An uploaded file: its name, its size in MB and what the PDF loader makes
\* of it: it raises, or it returns the pages.  The text of a page is the
\* sequence of the segments the splitter cuts it into (none for a page
\* without text).
UploadedFile(name, file_size_mb, loader_raises, pages) ==
    [name |-> name, file_size_mb |-> file_size_mb, loader_raises |-> loader_raises,
     pages |-> pages]

\* two PDFs with text, a PDF whose only page has no text, a file that is not
\* a PDF and a PDF over the size limit
BatchFiles ==
    { UploadedFile(<<"a", ".pdf">>, 1, FALSE, << <<"t1">> >>),
      UploadedFile(<<"b", ".pdf">>, 1, FALSE, << <<"t2">> >>),
      UploadedFile(<<"scan", ".pdf">>, 1, FALSE, << <<>> >>),
      UploadedFile(<<"notes", ".txt">>, 1, FALSE, << <<"t3">> >>),
      UploadedFile(<<"big", ".pdf">>, max_file_size_mb + 1, FALSE, << <<"t4">> >>) }

\* and: a PDF without pages, a PDF with two pages without text, a PDF with a
\* page without text before a page with text, a PDF the loader fails on
UploadedFiles ==
    BatchFiles \cup
    { UploadedFile(<<"empty", ".pdf">>, 1, FALSE, <<>>),
      UploadedFile(<<"scan2", ".pdf">>, 1, FALSE, << <<>>, <<>> >>),
      UploadedFile(<<"mixed", ".pdf">>, 1, FALSE, << <<>>, <<"t5">>, <<"t6">> >>),
      UploadedFile(<<"broken", ".pdf">>, 1, TRUE, <<>>) }

\* what a call raised (NoError: it returned) and the documents it returned
Processed(error, documents) == [error |-> error, documents |-> documents]

NoError == "none"

\* text_splitter.split_documents on one page: a chunk for each segment of its
\* text, with the metadata of the page (the loader numbers pages from 0)
SplitPage(text, page) ==
    [i \in 1..Len(text) |-> [page_content |-> <<text[i]>>, page |-> page]]

\* text_splitter.split_documents(documents): the chunks of the pages, in order
RECURSIVE split_documents(_, _)
split_documents(pages, n) ==
    IF n = 0 THEN <<>>
    ELSE split_documents(pages, n - 1) \o SplitPage(pages[n], n - 1)

\* DocumentProcessor.process_pdf on the temporary copy of an uploaded file
process_pdf(file) ==
    IF file.loader_raises THEN Processed("loader error", <<>>)
    ELSE IF file.pages = <<>>
    THEN Processed("No content could be extracted from the PDF", <<>>)
    ELSE Processed(NoError, split_documents(file.pages, Len(file.pages)))

\* doc.metadata.update({'original_filename': ..., 'file_size_mb': ...})
WithFileMetadata(documents, file) ==
    [i \in 1..Len(documents) |->
        [page_content |-> documents[i].page_content, page |-> documents[i].page,
         original_filename |-> file.name, file_size_mb |-> file.file_size_mb]]

\* DocumentProcessor.process_uploaded_file
process_uploaded_file(file) ==
    IF file.name[Len(file.name)] # ".pdf"
    THEN Processed("Only PDF files are supported", <<>>)
    ELSE IF file.file_size_mb > max_file_size_mb
    THEN Processed("File too large", <<>>)
    ELSE IF process_pdf(file).error # NoError
    THEN process_pdf(file)
    ELSE Processed(NoError, WithFileMetadata(process_pdf(file).documents, file))

(* ---- document upload ---- *)
\* most files in one batch
MaxFiles == 2

Batches == SeqsUpTo(BatchFiles, MaxFiles) \ {<<>>}

\* the knowledge base name of the upload page, stripped and not blank
UploadNames == { <<"K", "B", "1">> }

\* the loop over uploaded_files: all_documents
RECURSIVE AllDocuments(_)
AllDocuments(uploaded_files) ==
    IF uploaded_files = <<>> THEN <<>>
    ELSE process_uploaded_file(Head(uploaded_files)).documents
             \o AllDocuments(Tail(uploaded_files))

\* the loop over uploaded_files: the st.error reports of the except clause
RECURSIVE FileErrors(_)
FileErrors(uploaded_files) ==
    IF uploaded_files = <<>> THEN <<>>
    ELSE (IF process_uploaded_file(Head(uploaded_files)).error # NoError
          THEN << [name |-> Head(uploaded_files).name,
                   error |-> process_uploaded_file(Head(uploaded_files)).error] >>
          ELSE <<>>)
             \o FileErrors(Tail(uploaded_files))

\* the loop over the batches of the model, run once for each
LoopResults ==
    [uploaded_files \in SeqsUpTo(BatchFiles, MaxFiles) |->
        [all_documents |-> AllDocuments(uploaded_files),
         errors |-> FileErrors(uploaded_files)]]

\* what the last upload call was and what came of it
Uploaded(op, uploaded_files, knowledge_base_name, create_new, errors, all_documents, processed_files, outcome) ==
    [op |-> op, uploaded_files |-> uploaded_files,
     knowledge_base_name |-> knowledge_base_name, create_new |-> create_new,
     errors |-> errors, all_documents |-> all_documents,
     processed_files |-> processed_files, outcome |-> outcome]

NoUpload == Uploaded("none", <<>>, <<>>, FALSE, <<>>, <<>>, 0, "none")

\* a call of process_uploaded_file on one file (a run of the model makes one
\* upload call)
ProcessUploadedFile(file) ==
    LET result == process_uploaded_file(file)
    IN  /\ upload_return = NoUpload
        /\ upload_return' =
               Uploaded("process_uploaded_file", <<file>>, <<>>, FALSE,
                        FileErrors(<<file>>), result.documents,
                        IF result.error = NoError THEN 1 ELSE 0,
                        IF result.error = NoError THEN "returned" ELSE "raised")
        /\ UNCHANGED <<max_conversation_history, session_id, engineVars, memVars,
                       genVars, storeVars>>

\* create_knowledge_base on a store: the store it leaves
CreatedStore(cols, name, documents) ==
    LET collection_name == collection_name_of(name)
        probed == ProbeStore(cols, collection_name)
    IN  IF Strip(name) = <<>> THEN cols
        ELSE IF ProbeValue(cols, collection_name) THEN probed
        ELSE IF documents = <<>> THEN probed
        ELSE AddDocuments(GetOrCreate(probed, collection_name), collection_name, documents)

\* create_knowledge_base on a store: what it returns
CreatedReturn(cols, name, documents) ==
    LET collection_name == collection_name_of(name)
    IN  IF Strip(name) = <<>>
        THEN Returned("create", name, documents, "invalid name", NoHandle)
        ELSE IF ProbeValue(cols, collection_name)
        THEN Returned("create", name, documents, "already exists", NoHandle)
        ELSE IF documents = <<>>
        THEN Returned("create", name, documents, "no documents", NoHandle)
        ELSE Returned("create", name, documents, "ok", collection_name)

\* add_documents_to_knowledge_base on a store: the store it leaves
AppendedStore(cols, name, documents) ==
    IF OpenHandle(cols, name) = NoHandle THEN OpenStore(cols, name)
    ELSE AddDocuments(OpenStore(cols, name), OpenHandle(cols, name), documents)

\* add_documents_to_knowledge_base on a store: what it returns
AppendedReturn(cols, name, documents) ==
    Returned("append", name, documents,
             IF OpenHandle(cols, name) = NoHandle THEN "False" ELSE "True", NoHandle)

\* _process_documents that gives up at the first file that raises
_process_documents_StopsAtFailure(uploaded_files, knowledge_base_name, create_new) ==
    LET failed == {i \in 1..Len(uploaded_files) :
                      process_uploaded_file(uploaded_files[i]).error # NoError}
        taken == IF failed = {} THEN uploaded_files
                 ELSE SubSeq(uploaded_files, 1,
                             (CHOOSE i \in failed : \A j \in failed : i <= j) - 1)
        all_documents == LoopResults[taken].all_documents
        processed_files == Len(taken)
        asked == ~create_new
        exists == ProbeValue(collections, knowledge_base_name)
        store == IF asked THEN ProbeStore(collections, knowledge_base_name) ELSE collections
    IN  /\ upload_return = NoUpload
        /\ Len(all_documents) <= MaxCollectionSize
        /\ IF all_documents = <<>>
           THEN /\ upload_return' =
                       Uploaded("_process_documents", uploaded_files, knowledge_base_name,
                                create_new, LoopResults[uploaded_files].errors, all_documents,
                                processed_files, "no documents")
                /\ UNCHANGED <<collections, kb_return>>
           ELSE IF create_new \/ ~exists
           THEN /\ collections' = CreatedStore(store, knowledge_base_name, all_documents)
                /\ kb_return' = CreatedReturn(store, knowledge_base_name, all_documents)
                /\ upload_return' =
                       Uploaded("_process_documents", uploaded_files, knowledge_base_name,
                                create_new, LoopResults[uploaded_files].errors, all_documents,
                                processed_files,
                                IF kb_return'.value = "ok" THEN "created" ELSE "error")
           ELSE /\ Count(store, collection_name_of(knowledge_base_name))
                       + Len(all_documents) <= MaxCollectionSize
                /\ collections' = AppendedStore(store, knowledge_base_name, all_documents)
                /\ kb_return' = AppendedReturn(store, knowledge_base_name, all_documents)
                /\ upload_return' =
                       Uploaded("_process_documents", uploaded_files, knowledge_base_name,
                                create_new, LoopResults[uploaded_files].errors, all_documents,
                                processed_files,
                                IF kb_return'.value = "True" THEN "appended" ELSE "error")
        /\ UNCHANGED <<max_conversation_history, session_id, engineVars, memVars,
                       genVars, generation, writer>>

\* _process_documents: the loop over the files, then create_knowledge_base
\* or, when the name is not to be created and knowledge_base_exists says it
\* exists, add_documents_to_knowledge_base (a run of the model makes one
\* upload call)
_process_documents(uploaded_files, knowledge_base_name, create_new) ==
    LET all_documents == LoopResults[uploaded_files].all_documents
        processed_files == Len(uploaded_files) - Len(LoopResults[uploaded_files].errors)
        asked == ~create_new
        exists == ProbeValue(collections, knowledge_base_name)
        store == IF asked THEN ProbeStore(collections, knowledge_base_name) ELSE collections
    IN  /\ upload_return = NoUpload
        /\ Len(all_documents) <= MaxCollectionSize
        /\ IF all_documents = <<>>
           THEN /\ upload_return' =
                       Uploaded("_process_documents", uploaded_files, knowledge_base_name,
                                create_new, LoopResults[uploaded_files].errors, all_documents,
                                processed_files, "no documents")
                /\ UNCHANGED <<collections, kb_return>>
           ELSE IF create_new \/ ~exists
           THEN /\ collections' = CreatedStore(store, knowledge_base_name, all_documents)
                /\ kb_return' = CreatedReturn(store, knowledge_base_name, all_documents)
                /\ upload_return' =
                       Uploaded("_process_documents", uploaded_files, knowledge_base_name,
                                create_new, LoopResults[uploaded_files].errors, all_documents,
                                processed_files,
                                IF kb_return'.value = "ok" THEN "created" ELSE "error")
           ELSE /\ Count(store, collection_name_of(knowledge_base_name))
                       + Len(all_documents) <= MaxCollectionSize
                /\ collections' = AppendedStore(store, knowledge_base_name, all_documents)
                /\ kb_return' = AppendedReturn(store, knowledge_base_name, all_documents)
                /\ upload_return' =
                       Uploaded("_process_documents", uploaded_files, knowledge_base_name,
                                create_new, LoopResults[uploaded_files].errors, all_documents,
                                processed_files,
                                IF kb_return'.value = "True" THEN "appended" ELSE "error")
        /\ UNCHANGED <<max_conversation_history, session_id, engineVars, memVars,
                       genVars, generation, writer>>

(* ---- _sanitize_collection_name on its own ---- *)
\* longest name drawn from NameCharacters
MaxNameLen == 3

\* a letter of each case, a digit, a blank, the two characters kept as they
\* are, a character that is replaced, and U+0130
NameCharacters == {"A", "b", "1", " ", "-", "_", "@", "U+0130"}

\* the names of tests/test_vector_store.py: "Test KB", "My-Knowledge_Base",
\* "123 Numbers", "Special@#$Chars", ""
TestKB == <<"T", "e", "s", "t", " ", "K", "B">>
MyKnowledgeBase ==
    <<"M", "y", "-", "K", "n", "o", "w", "l", "e", "d", "g", "e", "_", "B", "a", "s", "e">>
Numbers123 == <<"1", "2", "3", " ", "N", "u", "m", "b", "e", "r", "s">>
SpecialChars ==
    <<"S", "p", "e", "c", "i", "a", "l", "@", "#", "$", "C", "h", "a", "r", "s">>
TestNames == {TestKB, MyKnowledgeBase, Numbers123, SpecialChars, <<>>}

SanitizeNames == SeqsUpTo(NameCharacters, MaxNameLen) \cup TestNames

\* a call of _sanitize_collection_name(name): handle is the name it returns
Sanitize(name) ==
    /\ kb_return' = Returned("sanitize", name, <<>>, "ok", _sanitize_collection_name(name))
    /\ UNCHANGED <<max_conversation_history, session_id, engineVars, upload_return,
                   memVars, genVars, collections, generation, writer>>

(* ---- create_knowledge_base by concurrent callers, one Chroma call a step ---- *)
Writers == {"w1", "w2"}

\* most chunks a concurrent caller hands to create_knowledge_base
MaxWriterChunks == 1
WriterChunkLists == SeqsUpTo(ChunkIds, MaxWriterChunks)

\* a caller's locals: handle_generation is the generation of the collection
\* its Chroma object was opened on
IdleWriter ==
    [pc |-> "idle", name |-> <<>>, documents |-> <<>>, collection_name |-> <<>>,
     handle_generation |-> 0, value |-> "none"]

\* the collection a Chroma object was opened on is still in the store
Live(key, g) == key \in DOMAIN collections /\ generation[key] = g

\* the name knowledge_base_exists(collection_name) probes
ProbedName(w) == collection_name_of(writer[w].collection_name)

\* lines 61-65: the name check and the derivation of the collection name
CreateCall(w, name, documents) ==
    /\ writer[w].pc = "idle"
    /\ writer' = [writer EXCEPT ![w] =
          IF Strip(name) = <<>>
          THEN [@ EXCEPT !.pc = "done", !.name = name, !.documents = documents,
                         !.value = "invalid name"]
          ELSE [@ EXCEPT !.pc = "probe_open", !.name = name, !.documents = documents,
                         !.collection_name = collection_name_of(name)]]
    /\ UNCHANGED <<max_conversation_history, session_id, engineVars, upload_return,
                   memVars, genVars, collections, generation, kb_return>>

\* knowledge_base_exists line 138: temp_chroma = Chroma(...)
ProbeOpen(w) ==
    /\ writer[w].pc = "probe_open"
    /\ collections' = GetOrCreate(collections, ProbedName(w))
    /\ writer' = [writer EXCEPT ![w].pc = "probe_count",
                                ![w].handle_generation = generation[ProbedName(w)]]
    /\ UNCHANGED <<max_conversation_history, session_id, engineVars, upload_return,
                   memVars, genVars, generation, kb_return>>

\* line 146: count = collection.count(); a vanished collection raises and the
\* outer except returns False; a positive count makes create raise "already exists"
ProbeCount(w) ==
    /\ writer[w].pc = "probe_count"
    /\ writer' = [writer EXCEPT ![w] =
          IF ~Live(ProbedName(w), @.handle_generation)
          THEN IF @.documents = <<>>
               THEN [@ EXCEPT !.pc = "done", !.value = "no documents"]
               ELSE [@ EXCEPT !.pc = "construct"]
          ELSE IF Count(collections, ProbedName(w)) > 0
          THEN [@ EXCEPT !.pc = "done", !.value = "already exists"]
          ELSE [@ EXCEPT !.pc = "probe_delete"]]
    /\ UNCHANGED <<max_conversation_history, session_id, engineVars, upload_return,
                   memVars, genVars, collections, generation, kb_return>>

\* lines 150-153: collection.delete() (a failure is swallowed), exists is
\* False; then lines 70-71: the empty-documents check
ProbeDelete(w) ==
    /\ writer[w].pc = "probe_delete"
    /\ IF Live(ProbedName(w), writer[w].handle_generation)
       THEN /\ collections' = DeleteCollection(collections, ProbedName(w))
            /\ generation' = [generation EXCEPT ![ProbedName(w)] = @ + 1]
       ELSE UNCHANGED <<collections, generation>>
    /\ writer' = [writer EXCEPT ![w] =
          IF @.documents = <<>>
          THEN [@ EXCEPT !.pc = "done", !.value = "no documents"]
          ELSE [@ EXCEPT !.pc = "construct"]]
    /\ UNCHANGED <<max_conversation_history, session_id, engineVars, upload_return,
                   memVars, genVars, kb_return>>

\* lines 76-80: vector_store = Chroma(...)
Construct(w) ==
    /\ writer[w].pc = "construct"
    /\ collections' = GetOrCreate(collections, writer[w].collection_name)
    /\ writer' = [writer EXCEPT ![w].pc = "add",
                                ![w].handle_generation =
                                    generation[writer[w].collection_name]]
    /\ UNCHANGED <<max_conversation_history, session_id, engineVars, upload_return,
                   memVars, genVars, generation, kb_return>>

\* line 83: vector_store.add_documents(documents); on a vanished collection
\* it raises and create_knowledge_base re-raises
AddDocumentsStep(w) ==
    /\ writer[w].pc = "add"
    /\ IF Live(writer[w].collection_name, writer[w].handle_generation)
       THEN /\ collections' = AddDocuments(collections, writer[w].collection_name,
                                           writer[w].documents)
            /\ writer' = [writer EXCEPT ![w].pc = "done", ![w].value = "ok"]
       ELSE /\ collections' = collections
            /\ writer' = [writer EXCEPT ![w].pc = "done", ![w].value = "error"]
    /\ UNCHANGED <<max_conversation_history, session_id, engineVars, upload_return,
                   memVars, genVars, generation, kb_return>>

(* ========================= specification ============================== *)
\* ConversationManager.__init__ and the locals of a generator not yet called
InitConversation ==
    /\ max_conversation_history \in 1..MaxHistory
    /\ chat_memory = <<>>
    /\ session_messages = <<>>
    /\ session_id = NoSession
    /\ pc = "idle"
    /\ question = <<>>
    /\ relevant_docs = <<>>
    /\ retrieval_failed = FALSE
    /\ context = <<>>
    /\ chat_history = <<>>
    /\ llm_prompt = <<>>
    /\ llm_out = <<>>
    /\ llm_failed = FALSE
    /\ response = <<>>
    /\ chunks = <<>>
    /\ mem0 = <<>>
    /\ queried = NoRetriever

\* no VectorStoreManager call made yet
InitCalls ==
    /\ generation = [k \in CollectionNames |-> 0]
    /\ kb_return = NoReturn
    /\ writer = [w \in Writers |-> IdleWriter]

\* RAGEngine.__init__ on a store handle; no auxiliary call, no upload yet
InitEngine ==
    /\ vector_store = InitialVectorStore
    /\ retriever = as_retriever(InitialVectorStore)
    /\ engine_return = NoEngineReturn
    /\ upload_return = NoUpload

Init ==
    /\ InitConversation
    /\ collections = NoCollections
    /\ InitCalls
    /\ InitEngine

Next ==
    \/ \E h \in Questions, a \in Answers : add_message(h, a)
    \/ \E m \in Questions : add_user_message(m)
    \/ \E m \in Answers : add_ai_message(m)
    \/ clear_conversation
    \/ \E messages \in LoadInputs : load_session_messages(messages)
    \/ \E q \in Questions : Ask(q)
    \/ \E result \in RetrievalResults, failed \in BOOLEAN : RetrieveAndAssemble(result, failed)
    \/ SubmitPrompt
    \/ \E f \in Fragments : StreamFragment(f)
    \/ \E e \in Errors : StreamError(e)
    \/ ConsumerResume
    \/ StreamExhausted
    \/ ConsumerClose
    \/ CollectReturn

Spec == Init /\ [][Next]_vars

(* ---- the conversation memory alone ---- *)
NextMemory ==
    \/ \E h \in Questions, a \in Answers : add_message(h, a)
    \/ \E m \in Questions : add_user_message(m)
    \/ \E m \in Answers : add_ai_message(m)
    \/ clear_conversation
    \/ \E messages \in LoadInputs : load_session_messages(messages)
    \/ \E id \in SessionIds : set_session_id(id)

SpecMemory == Init /\ [][NextMemory]_vars

(* ---- the conversation memory when a statement of add_message may raise ---- *)
NextFault ==
    \/ NextMemory
    \/ \E h \in Questions, a \in Answers, point \in FaultPoints :
           add_message_raises(h, a, point)

SpecFault == Init /\ [][NextFault]_vars

(* ---- a run of add_message calls from the empty memory ---- *)
\* most exchanges of such a run
MaxExchanges == 3
ExchangeAnswers == {<<"a1">>, <<"a2">>}

NextExchanges ==
    \E h \in Questions, a \in ExchangeAnswers : add_message_within(2 * MaxExchanges, h, a)

SpecExchanges == Init /\ [][NextExchanges]_vars

(* ---- the knowledge-base store, one caller at a time ---- *)
InitStore ==
    /\ InitConversation
    /\ max_conversation_history = MaxHistory
    /\ collections \in PersistedStores
    /\ InitCalls
    /\ InitEngine

NextStore ==
    \/ \E name \in KBNames, documents \in ChunkLists : create_knowledge_base(name, documents)
    \/ \E name \in KBNames : knowledge_base_exists(name)
    \/ \E name \in KBNames : get_knowledge_base(name)
    \/ \E name \in KBNames : delete_knowledge_base(name)
    \/ \E name \in KBNames, documents \in AppendLists :
           add_documents_to_knowledge_base(name, documents)

SpecStore == InitStore /\ [][NextStore]_vars

(* ---- two concurrent create_knowledge_base calls ---- *)
NextWriters ==
    \/ \E w \in Writers, name \in KBNames, documents \in WriterChunkLists :
           CreateCall(w, name, documents)
    \/ \E w \in Writers : ProbeOpen(w)
    \/ \E w \in Writers : ProbeCount(w)
    \/ \E w \in Writers : ProbeDelete(w)
    \/ \E w \in Writers : Construct(w)
    \/ \E w \in Writers : AddDocumentsStep(w)

SpecWriters == InitStore /\ [][NextWriters]_vars

(* ---- questions, with the engine rebound and queried in between ---- *)
NextEngine ==
    \/ \E q \in Questions : Ask(q)
    \/ \E result \in RetrievalResults, failed \in BOOLEAN : RetrieveAndAssemble(result, failed)
    \/ SubmitPrompt
    \/ StreamExhausted
    \/ CollectReturn
    \/ \E store \in VectorStores, raised \in BOOLEAN : update_vector_store(store, raised)
    \/ \E q \in Questions, result \in RetrievalResults, raised \in BOOLEAN :
           get_source_documents(q, result, raised)

SpecEngine == Init /\ [][NextEngine]_vars

(* ---- one upload call, a single file through process_uploaded_file or ---- *)
(* ---- a batch through _process_documents, on a store earlier uploads  ---- *)
(* ---- can have left                                                   ---- *)
\* nothing, an empty collection, or the knowledge base "kb1" with the chunk
\* of a.pdf
UploadStores ==
    PersistedStores \cup
    { AddDocuments(GetOrCreate(NoCollections, <<"k", "b", "1">>), <<"k", "b", "1">>,
                   process_uploaded_file(
                       UploadedFile(<<"a", ".pdf">>, 1, FALSE, << <<"t1">> >>)).documents) }

InitUpload ==
    /\ InitConversation
    /\ max_conversation_history = MaxHistory
    /\ collections \in UploadStores
    /\ InitCalls
    /\ InitEngine

NextUpload ==
    \/ \E file \in UploadedFiles : ProcessUploadedFile(file)
    \/ \E uploaded_files \in Batches, knowledge_base_name \in UploadNames,
          create_new \in BOOLEAN :
           _process_documents(uploaded_files, knowledge_base_name, create_new)

SpecUpload == InitUpload /\ [][NextUpload]_vars

(* ---- _sanitize_collection_name applied to a name ---- *)
NextSanitize == \E name \in SanitizeNames : Sanitize(name)

SpecSanitize == InitStore /\ [][NextSanitize]_vars

(* ---- knowledge bases created under typed names, then reached through ---- *)
(* ---- the names list_knowledge_bases reports                          ---- *)
NextSelector ==
    \/ \E name \in SelectorNames, documents \in AppendLists :
           create_knowledge_base(name, documents)
    \/ \E selected_kb \in ListedNames : _get_rag_engine(selected_kb)
    \/ \E name \in ListedNames : _delete_knowledge_base(name)

SpecSelector == InitStore /\ [][NextSelector]_vars

(* ============================= claims ================================= *)
\* concatenation of a sequence of texts, in order
RECURSIVE Flatten(_)
Flatten(texts) == IF texts = <<>> THEN <<>> ELSE Head(texts) \o Flatten(Tail(texts))

IsPrefix(p, t) == Len(p) <= Len(t) /\ SubSeq(t, 1, Len(p)) = p
IsSuffix(x, t) == Len(x) <= Len(t) /\ SubSeq(t, Len(t) - Len(x) + 1, Len(t)) = x

\* a question is in flight or has just ended
InFlight == pc \in {"retrieving", "assembled", "streaming", "suspended", "done", "closed"}

\* the window storage holds, after what it held when the question was asked,
\* exactly one user turn with the question and one assistant turn
ExactlyOneExchange ==
    /\ Len(chat_memory) = Len(mem0) + 2
    /\ IsPrefix(mem0, chat_memory)
    /\ chat_memory[Len(mem0) + 1] = HumanMessage(question)
    /\ chat_memory[Len(mem0) + 2].role = "assistant"

\* the assistant text of the exchange committed for the current question
CommittedText == chat_memory[Len(chat_memory)].content

(* ------------------------------- C1 ----------------------------------- *)
\* C1, as stated: when the fragment stream has been consumed to its end
\* (normally or after a failure), exactly one exchange has been committed, and
\* on a fresh memory total_session_messages is 2.
C1_Original ==
    pc = "done" =>
        /\ ExactlyOneExchange
        /\ (mem0 = <<>> => total_session_messages = 2)

\* C1, amended: when the fragment stream has been consumed to its end, exactly
\* one exchange has been committed to the window storage, and on a fresh memory
\* total_session_messages is min(2, max_conversation_history): 2 only when the
\* configured limit is at least 2, because the display log is cut to the limit.
C1_ExactlyOneCommit ==
    pc = "done" =>
        /\ ExactlyOneExchange
        /\ (mem0 = <<>> => total_session_messages = Min(2, max_conversation_history))

C1_Witness ==
    /\ pc = "done"
    /\ mem0 = <<>>
    /\ ~llm_failed
    /\ Len(chunks) = 2
    /\ total_session_messages = 2

(* ------------------------------- C2 ----------------------------------- *)
\* position of the question in Retrieving, ContextAssembled, Streaming, Committed
PhaseRank ==
    CASE pc = "retrieving" -> 1
      [] pc = "assembled" -> 2
      [] pc \in {"streaming", "suspended"} -> 3
      [] pc = "done" -> 4
      [] OTHER -> 0

\* C2: a question enters Retrieving, ContextAssembled, Streaming, Committed
\* only in that order, one after the other, and whenever the exchange of the
\* question in flight is in memory the stream has ended and every fragment the
\* collaborator produced (and the error fragment, if it failed) has been handed
\* to the consumer.
C2_CommitAfterStream ==
    /\ []((InFlight /\ chat_memory # mem0) =>
            /\ pc = "done"
            /\ Len(chunks) = Len(llm_out) + (IF llm_failed THEN 1 ELSE 0)
            /\ CommittedText = Flatten(chunks))
    /\ [][(PhaseRank' # PhaseRank /\ PhaseRank' # 0) => PhaseRank' = PhaseRank + 1]_vars

C2_Witness ==
    /\ pc = "done"
    /\ chat_memory # mem0
    /\ Len(chunks) >= 2

(* ------------------------------- C3 ----------------------------------- *)
\* C3: once the collaborator has failed, the generator is never in a state
\* other than suspended at a yield, resumed, ended or closed by the consumer
\* (no exception reaches the consumer), the last fragment handed to the
\* consumer is the error-message fragment, and when the stream has ended the
\* committed assistant turn is the response buffer, which ends with that
\* error text.
C3_FailureYieldsErrorFragment ==
    llm_failed =>
        /\ pc \in {"suspended", "streaming", "done", "closed"}
        /\ chunks # <<>>
        /\ \E e \in Errors :
              /\ chunks[Len(chunks)] = StreamErrorFragment(e)
              /\ (pc = "done" =>
                    /\ ExactlyOneExchange
                    /\ CommittedText = response
                    /\ IsSuffix(StreamErrorFragment(e), CommittedText))

C3_Witness ==
    /\ llm_failed
    /\ pc = "done"
    /\ Len(chunks) >= 2
    /\ Len(llm_out) >= 1

\* the failure before the first fragment
C3_WitnessBeforeFirst ==
    /\ llm_failed
    /\ pc = "done"
    /\ llm_out = <<>>

(* ------------------------------- C4 ----------------------------------- *)
\* C4: when the consumer has closed the stream after some fragments were
\* delivered, memory holds one exchange for the question, whose assistant turn
\* is the partial text generated so far.
C4_CancelCommitsPartial ==
    (pc = "closed" /\ chunks # <<>>) =>
        /\ ExactlyOneExchange
        /\ CommittedText = response

(* ------------------------------- C5 ----------------------------------- *)
\* C5: the fragments handed to the consumer are the fragments the collaborator
\* produced, in the same order (followed by the error fragment if it failed),
\* and the assistant text committed for the question is their concatenation in
\* delivery order.
C5_CommittedIsConcatenation ==
    InFlight =>
        /\ IsPrefix(llm_out, chunks)
        /\ Len(chunks) = Len(llm_out) + (IF llm_failed THEN 1 ELSE 0)
        /\ (pc = "done" => ExactlyOneExchange /\ CommittedText = Flatten(chunks))

C5_Witness ==
    /\ pc = "done"
    /\ chunks = <<(<<"x", "y">>), (<<"x">>)>>
    /\ CommittedText = <<"x", "y", "x">>

(* ------------------------------- C6 ----------------------------------- *)
\* C6: when the similarity query failed or returned no chunk, the context is
\* the fixed sentinel and not the empty text, the prompt submitted to the
\* collaborator carries that sentinel, and at the end of the stream the
\* exchange is committed.
C6_EmptyRetrievalProceeds ==
    /\ retrieval_failed =>
           (relevant_docs = <<>>
               /\ pc \in {"assembled", "streaming", "suspended", "done", "closed"})
    /\ (pc \in {"assembled", "streaming", "suspended", "done", "closed"}
           /\ relevant_docs = <<>>) =>
        /\ context = NoContextSentinel
        /\ context # <<>>
        /\ (pc # "assembled" =>
               llm_prompt = FormatPrompt(question, NoContextSentinel, chat_history))
        /\ (pc = "done" => ExactlyOneExchange)

C6_Witness ==
    /\ pc = "done"
    /\ retrieval_failed
    /\ relevant_docs = <<>>
    /\ llm_prompt # <<>>

\* the query that succeeds with zero chunks
C6_WitnessZeroChunks ==
    /\ pc = "done"
    /\ ~retrieval_failed
    /\ relevant_docs = <<>>

(* ------------------------------- C7 ----------------------------------- *)
\* C7: the display log never holds more than max_conversation_history turns.
C7_DisplayLogBounded ==
    Len(session_messages) <= max_conversation_history

(* ------------------------------- C8 ----------------------------------- *)
\* number of turns in a text rendered by get_context_for_rag: one per line
RECURSIVE CountLines(_)
CountLines(text) ==
    IF text = <<>> THEN 0
    ELSE IF Head(text) \in {"Human: ", "Assistant: "}
         THEN 1 + CountLines(Tail(text))
         ELSE CountLines(Tail(text))

RenderedTurns == CountLines(get_context_for_rag)

\* the most recent n turns of the window storage, oldest first
MostRecent(n) ==
    SubSeq(chat_memory, Len(chat_memory) - Min(n, Len(chat_memory)) + 1, Len(chat_memory))

\* C8: the window text renders at most 2*(max_conversation_history - 1) turns,
\* and they are the most recent turns of the window storage, oldest first.
C8_WindowWithinCap ==
    LET cap == 2 * (max_conversation_history - 1)
        recent == MostRecent(cap)
    IN  /\ RenderedTurns <= cap
        /\ get_context_for_rag = JoinLines([i \in 1..Len(recent) |-> FormatTurn(recent[i])])

(* ------------------------------- C9 ----------------------------------- *)
\* C9: the window text never renders more turns than the display log holds.
C9_WindowWithinDisplayLog ==
    RenderedTurns <= Len(session_messages)

(* ------------------------------- C10 ---------------------------------- *)
\* C10: the turns stored in the window log (total_langchain_messages) never
\* exceed the window cap of 2*(max_conversation_history - 1).
C10_StoredWithinCap ==
    total_langchain_messages <= 2 * (max_conversation_history - 1)

(* ------------------------------- C11 ---------------------------------- *)
\* In a run of add_message calls from the empty memory the window storage is
\* the appended sequence u1,a1,...,un,an itself (it is append-only).

\* C11: after n add_message calls from the empty memory the display log is
\* exactly the most recent min(2n, max_conversation_history) turns of the
\* appended sequence, in their order; with a limit of 3 and 3 exchanges the
\* display log has exactly 3 turns and the window text renders the last
\* 2 exchanges (turns 3..6 of the sequence).
C11_DisplayLogIsRecentTurns ==
    /\ session_messages = MostRecent(Min(Len(chat_memory), max_conversation_history))
    /\ (max_conversation_history = 3 /\ Len(chat_memory) = 6) =>
          /\ Len(session_messages) = 3
          /\ get_context_for_rag =
                JoinLines(<<FormatTurn(chat_memory[3]), FormatTurn(chat_memory[4]),
                            FormatTurn(chat_memory[5]), FormatTurn(chat_memory[6])>>)

\* three exchanges under a limit of 3: the head of the display log is the
\* assistant turn of the second exchange, its user turn has been evicted
C11_Witness ==
    /\ max_conversation_history = 3
    /\ Len(chat_memory) = 6
    /\ Len(session_messages) = 3
    /\ session_messages[1] = chat_memory[4]
    /\ session_messages[1].role = "assistant"

(* ------------------------------- C12 ---------------------------------- *)
\* C12: when a statement inside add_message raises, the call changes
\* neither the window storage nor the display log.
C12_FailedExchangeIsNoOp ==
    [][(\E h \in Questions, a \in Answers, point \in FaultPoints :
            add_message_raises(h, a, point))
         => UNCHANGED <<chat_memory, session_messages>>]_vars

(* ------------------------------- C13 ---------------------------------- *)
\* C13: when clear_conversation returns, the window storage is empty, the
\* display log is empty and the session identifier is unset again.
C13_ClearResetsEverything ==
    [][clear_conversation =>
          /\ chat_memory' = <<>>
          /\ session_messages' = <<>>
          /\ session_id' = NoSession]_vars

(* ------------------------------- C14 ---------------------------------- *)
\* the input ends with a user turn that no assistant turn follows
EndsWithUnansweredUser(messages) ==
    messages # <<>> /\ messages[Len(messages)].role = "user"

\* C14: load_session_messages of a list that ends with an unanswered user
\* turn leaves that turn as the last entry of the window storage and of the
\* display log.
C14_PendingUserTurnIsLast ==
    [][\A messages \in LoadInputs :
          (load_session_messages(messages) /\ EndsWithUnansweredUser(messages)) =>
              /\ chat_memory' # <<>>
              /\ chat_memory'[Len(chat_memory')] = messages[Len(messages)]
              /\ session_messages' # <<>>
              /\ session_messages'[Len(session_messages')] = messages[Len(messages)]]_vars

(* ------------------------------- C15 ---------------------------------- *)
\* Every call records its arguments in kb_return, so a step is the call
\* op(name, ...) exactly when it is that call on the recorded arguments.

\* the collection the name derives holds at least one chunk
Holds(cols, name) ==
    LET key == collection_name_of(name)
    IN  key \in DOMAIN cols /\ Len(cols[key]) >= 1

\* list_knowledge_bases has an entry for the collection with that many chunks
Listed(cols, key, n) ==
    \E i \in 1..Len(list_knowledge_bases(cols)) :
        /\ list_knowledge_bases(cols)[i].collection_name = key
        /\ list_knowledge_bases(cols)[i].document_count = n

\* C15: once create_knowledge_base(name, documents) has succeeded,
\* knowledge_base_exists(name) is true and list_knowledge_bases has an entry
\* for the collection whose document_count is len(documents); once
\* delete_knowledge_base(name) has returned True, knowledge_base_exists(name)
\* is false, and deleting the same name again returns False.
C15_CreateListDeleteRoundTrip ==
    /\ []((kb_return.op = "create" /\ kb_return.value = "ok") =>
            /\ ProbeValue(collections, kb_return.name)
            /\ Listed(collections, collection_name_of(kb_return.name),
                      Len(kb_return.documents)))
    /\ []((kb_return.op = "delete" /\ kb_return.value = "True") =>
            ~ProbeValue(collections, kb_return.name))
    /\ [][(/\ kb_return.op = "delete"
           /\ kb_return.value = "True"
           /\ delete_knowledge_base(kb_return.name)) => kb_return'.value = "False"]_vars

\* a knowledge base has been deleted while another one is still stored
C15_Witness ==
    /\ kb_return.op = "delete"
    /\ kb_return.value = "True"
    /\ collection_name_of(kb_return.name) \notin DOMAIN collections
    /\ \E k \in DOMAIN collections : Len(collections[k]) >= 1

\* a knowledge base has been created and is listed
C15_WitnessCreated ==
    /\ kb_return.op = "create"
    /\ kb_return.value = "ok"
    /\ Len(kb_return.documents) = 2
    /\ Listed(collections, kb_return.handle, 2)

(* ------------------------------- C16 ---------------------------------- *)
\* a call stored nothing: no collection was added and no collection that is
\* still there has changed (an empty collection may have been removed)
NothingStored(before, after) ==
    /\ DOMAIN after \subseteq DOMAIN before
    /\ \A k \in DOMAIN after : after[k] = before[k]
    /\ KnowledgeBases(after) = KnowledgeBases(before)

\* C16: create_knowledge_base fails with the invalid-name error for an empty
\* or blank name, with the already-exists error when the derived collection
\* holds a chunk (whatever display name created it), with the no-documents
\* error when there is no document; a failed call stores nothing.
C16_CreateFailuresStoreNothing ==
    [][LET name == kb_return'.name
           documents == kb_return'.documents
       IN  create_knowledge_base(name, documents) =>
              /\ (Strip(name) = <<>>) => kb_return'.value = "invalid name"
              /\ (Strip(name) # <<>> /\ Holds(collections, name)) =>
                     kb_return'.value = "already exists"
              /\ (Strip(name) # <<>> /\ ~Holds(collections, name) /\ documents = <<>>) =>
                     kb_return'.value = "no documents"
              /\ (kb_return'.value \in CreateErrors) =>
                     NothingStored(collections, collections')]_vars

\* create under the display name "KB1" was refused because the collection
\* "kb1" holds chunks
C16_Witness ==
    /\ kb_return.op = "create"
    /\ kb_return.value = "already exists"
    /\ kb_return.name = <<"K", "B", "1">>
    /\ kb_return.documents # <<>>
    /\ Holds(collections, <<"k", "b", "1">>)

\* create was refused for a blank name, and for an empty document list
C16_WitnessBlank ==
    kb_return.op = "create" /\ kb_return.value = "invalid name" /\ kb_return.name = <<" ">>

C16_WitnessNoDocuments ==
    kb_return.op = "create" /\ kb_return.value = "no documents"

(* ------------------------------- C17 ---------------------------------- *)
\* C17: knowledge_base_exists(name) returns True exactly when the derived
\* collection holds at least one chunk; when it returns, no empty collection
\* of that name is in the store and the knowledge bases are what they were.
C17_ProbeLeavesNoTrace ==
    [][LET name == kb_return'.name
       IN  knowledge_base_exists(name) =>
              LET key == collection_name_of(name)
              IN  /\ (kb_return'.value = "True") <=> Holds(collections, name)
                  /\ ~(key \in DOMAIN collections' /\ Len(collections'[key]) = 0)
                  /\ KnowledgeBases(collections') = KnowledgeBases(collections)]_vars

\* a probe of an absent name returned False next to a stored knowledge base
C17_Witness ==
    /\ kb_return.op = "exists"
    /\ kb_return.value = "False"
    /\ collection_name_of(kb_return.name) \notin DOMAIN collections
    /\ \E k \in DOMAIN collections : Len(collections[k]) >= 1

(* ------------------------------- C18 ---------------------------------- *)
\* C18: when two concurrent create_knowledge_base calls with non-empty
\* documents derive the same collection name and both have returned, the
\* collection is in the store and holds the documents of exactly one of them.
C18_OneWriterSurvives ==
    \A v, w \in Writers :
        (/\ v # w
         /\ writer[v].pc = "done" /\ writer[w].pc = "done"
         /\ writer[v].documents # <<>> /\ writer[w].documents # <<>>
         /\ writer[v].collection_name # <<>>
         /\ writer[v].collection_name = writer[w].collection_name) =>
            /\ writer[v].collection_name \in DOMAIN collections
            /\ collections[writer[v].collection_name]
                   \in {writer[v].documents, writer[w].documents}

(* ------------------------------- C19 ---------------------------------- *)
\* C19: add_documents_to_knowledge_base on a name without a stored chunk
\* returns False, stores nothing and leaves no collection of that name, so
\* knowledge_base_exists(name) is still false; on a knowledge base it
\* returns True and the chunk count grows by len(documents).
C19_AppendNeedsKnowledgeBase ==
    [][LET name == kb_return'.name
           documents == kb_return'.documents
       IN  add_documents_to_knowledge_base(name, documents) =>
              LET key == collection_name_of(name)
              IN  /\ ~Holds(collections, name) =>
                        /\ kb_return'.value = "False"
                        /\ key \notin DOMAIN collections'
                        /\ NothingStored(collections, collections')
                        /\ ~ProbeValue(collections', name)
                  /\ Holds(collections, name) =>
                        /\ kb_return'.value = "True"
                        /\ Len(collections'[key]) = Len(collections[key]) + Len(documents)
                        /\ collections'[key] = collections[key] \o documents]_vars

\* an append has grown a knowledge base to two chunks
C19_Witness ==
    /\ kb_return.op = "append"
    /\ kb_return.value = "True"
    /\ Len(kb_return.documents) = 1
    /\ Len(collections[collection_name_of(kb_return.name)]) = 2

\* an append on an absent name was refused
C19_WitnessAbsent ==
    /\ kb_return.op = "append"
    /\ kb_return.value = "False"
    /\ collection_name_of(kb_return.name) \notin DOMAIN collections

(* ------------------------------- C20 ---------------------------------- *)
\* C20: get_knowledge_base(name) returns None exactly when the derived
\* collection holds no chunk, otherwise a handle on that collection; the
\* call stores nothing, and a second call on the same name returns a handle
\* that reports the same chunk count.
C20_OpenIsReadOnly ==
    /\ [][LET name == kb_return'.name
          IN  get_knowledge_base(name) =>
                 /\ (kb_return'.value = "None") <=> ~Holds(collections, name)
                 /\ Holds(collections, name) =>
                        /\ kb_return'.handle = collection_name_of(name)
                        /\ HandleCount(collections', kb_return'.handle)
                               = Len(collections[collection_name_of(name)])
                 /\ NothingStored(collections, collections')]_vars
    /\ [][(/\ kb_return.op = "open"
           /\ kb_return.value = "handle"
           /\ get_knowledge_base(kb_return.name)) =>
              /\ kb_return'.value = "handle"
              /\ HandleCount(collections', kb_return'.handle)
                     = HandleCount(collections, kb_return.handle)]_vars

\* a handle on a stored knowledge base has been returned
C20_Witness ==
    /\ kb_return.op = "open"
    /\ kb_return.value = "handle"
    /\ HandleCount(collections, kb_return.handle) >= 1

\* None has been returned for an absent name
C20_WitnessNone ==
    /\ kb_return.op = "open"
    /\ kb_return.value = "None"
    /\ kb_return.name = <<"D", "o", "c">>

(* ------------------------------- C21 ---------------------------------- *)
\* the algorithm as it is stated: replace, default key, prefix, lower-case
StatedSanitize(name) ==
    LET replaced == ReplaceOthers(name)
    IN  IF replaced = <<>>
        THEN LowerAll(<<"d", "e", "f", "a", "u", "l", "t", "_", "k", "b">>)
        ELSE IF ~IsAlnum(replaced[1])
        THEN LowerAll(<<"k", "b", "_">> \o replaced)
        ELSE LowerAll(replaced)

SanitizeReturned == kb_return.op = "sanitize"

\* C21: for every input string, the name _sanitize_collection_name returns
\* is the one the stated algorithm gives; it is never empty, holds only
\* lower-case letters, digits, "-" and "_", and starts with a letter or a
\* digit; "Test KB", "My-Knowledge_Base", "123 Numbers" and "" give
\* "test_kb", "my-knowledge_base", "123_numbers" and "default_kb".
C21_SanitizeFollowsStatedAlgorithm ==
    SanitizeReturned =>
        /\ kb_return.handle = StatedSanitize(kb_return.name)
        /\ kb_return.handle # <<>>
        /\ \A i \in 1..Len(kb_return.handle) :
               kb_return.handle[i] \in LowerCase \cup Digits \cup {"-", "_"}
        /\ IsAlnum(kb_return.handle[1])
        /\ kb_return.name = TestKB =>
               kb_return.handle = <<"t", "e", "s", "t", "_", "k", "b">>
        /\ kb_return.name = MyKnowledgeBase =>
               kb_return.handle = <<"m", "y", "-", "k", "n", "o", "w", "l", "e", "d", "g", "e", "_", "b", "a", "s", "e">>
        /\ kb_return.name = Numbers123 =>
               kb_return.handle = <<"1", "2", "3", "_", "n", "u", "m", "b", "e", "r", "s">>
        /\ kb_return.name = <<>> =>
               kb_return.handle = <<"d", "e", "f", "a", "u", "l", "t", "_", "k", "b">>

C23_SanitizeIsIdempotent ==
    SanitizeReturned =>
        _sanitize_collection_name(kb_return.handle) = kb_return.handle

(* ------------------------------- C24 ---------------------------------- *)
\* the entry of chunk i as it is stated: the 1-based source index, and the
\* page number whenever the metadata carries one
StatedContextPart(i, doc) ==
    LET source == IF doc.source = <<>> THEN <<"Document ", ToString(i)>> ELSE doc.source
        page_info == IF doc.page # <<>>
                     THEN <<" (Page ", ToString(doc.page[1]), ")">>
                     ELSE <<>>
    IN  <<"[Source ", ToString(i), " - ">> \o source \o page_info \o <<"]:\n">>
            \o doc.page_content \o <<"\n">>

\* C24: for a non-empty list of retrieved chunks the context block holds the
\* chunks in retrieval order, the i-th under the source index i, and the
\* prefix of every chunk whose metadata carries a page number shows that
\* page number, whatever its value.
C24_ContextShowsEveryPage ==
    pc \notin {"idle", "retrieving"} /\ relevant_docs # <<>> =>
        context = JoinLines([i \in 1..Len(relevant_docs) |->
                                StatedContextPart(i, relevant_docs[i])])

(* ------------------------------- C29 ---------------------------------- *)
\* C29: in every reachable memory state, load_session_messages applied to
\* what get_session_messages returns leaves a display log with the same
\* turns (roles and contents) in the same order.
C29_ExportReloadRoundTrip ==
    Quiescent => LoadedSession(get_session_messages) = session_messages

(* ------------------------------- C25 ---------------------------------- *)
\* the file passes the checks on name and size and the loader reads it, but
\* no page of it has text: it has no page, or every page is empty
NoExtractableText(file) ==
    /\ file.name[Len(file.name)] = ".pdf"
    /\ file.file_size_mb <= max_file_size_mb
    /\ ~file.loader_raises
    /\ \A i \in 1..Len(file.pages) : file.pages[i] = <<>>

\* C25: processing a document without extractable text, whether the loader
\* returns no page or only pages with empty text, raises the "no content"
\* error to the caller; a call that returns never returns an empty list of
\* chunks.
C25_NoTextIsAnError ==
    upload_return.op = "process_uploaded_file" =>
        /\ NoExtractableText(upload_return.uploaded_files[1]) =>
               /\ upload_return.outcome = "raised"
               /\ upload_return.errors[1].error
                      = "No content could be extracted from the PDF"
        /\ upload_return.outcome = "returned" => upload_return.all_documents # <<>>

(* ------------------------------- C26 ---------------------------------- *)
\* the file is rejected (not a PDF, over the size limit) or its processing
\* fails (the loader raises or returns no page)
Fails(file) ==
    \/ file.name[Len(file.name)] # ".pdf"
    \/ file.file_size_mb > max_file_size_mb
    \/ file.loader_raises
    \/ file.pages = <<>>

\* the names of the files of a batch that fail, in upload order
RECURSIVE FailedNames(_)
FailedNames(uploaded_files) ==
    IF uploaded_files = <<>> THEN <<>>
    ELSE (IF Fails(Head(uploaded_files)) THEN <<Head(uploaded_files).name>> ELSE <<>>)
             \o FailedNames(Tail(uploaded_files))

\* the chunks of the files of a batch that succeed, in upload order
RECURSIVE ChunksOfSucceeded(_)
ChunksOfSucceeded(uploaded_files) ==
    IF uploaded_files = <<>> THEN <<>>
    ELSE (IF Fails(Head(uploaded_files)) THEN <<>>
          ELSE process_uploaded_file(Head(uploaded_files)).documents)
             \o ChunksOfSucceeded(Tail(uploaded_files))

\* C26: in a batch, each file that is rejected or fails is reported on its
\* own and every other file is still processed; the chunks handed to
\* create_knowledge_base or add_documents_to_knowledge_base are those of the
\* files that succeeded, in upload order; when no file yields a chunk, no
\* call is made on the store and the store is as before.
C26_BatchSurvivesFailedFiles ==
    [][LET uploaded_files == upload_return'.uploaded_files
           succeeded == ChunksOfSucceeded(uploaded_files)
       IN  (/\ upload_return'.op = "_process_documents"
            /\ _process_documents(uploaded_files, upload_return'.knowledge_base_name,
                                  upload_return'.create_new)) =>
               /\ [i \in 1..Len(upload_return'.errors) |-> upload_return'.errors[i].name]
                      = FailedNames(uploaded_files)
               /\ upload_return'.processed_files
                      = Len(uploaded_files) - Len(FailedNames(uploaded_files))
               /\ upload_return'.all_documents = succeeded
               /\ succeeded # <<>> =>
                      /\ kb_return'.op \in {"create", "append"}
                      /\ kb_return'.name = upload_return'.knowledge_base_name
                      /\ kb_return'.documents = succeeded
               /\ succeeded = <<>> =>
                      /\ upload_return'.outcome = "no documents"
                      /\ collections' = collections
                      /\ kb_return' = kb_return]_vars

\* a batch whose first file failed and whose second file succeeded has
\* created the knowledge base with the chunks of the second file
C26_Witness ==
    /\ upload_return.op = "_process_documents"
    /\ Len(upload_return.uploaded_files) = 2
    /\ Fails(upload_return.uploaded_files[1])
    /\ ~Fails(upload_return.uploaded_files[2])
    /\ upload_return.outcome = "created"
    /\ Len(upload_return.errors) = 1
    /\ collections[collection_name_of(upload_return.knowledge_base_name)]
           = process_uploaded_file(upload_return.uploaded_files[2]).documents

\* a batch of which no file yielded a chunk has left the store alone
C26_WitnessNoChunk ==
    /\ upload_return.op = "_process_documents"
    /\ upload_return.outcome = "no documents"
    /\ Len(upload_return.errors) >= 1
    /\ kb_return = NoReturn

(* ------------------------------- C27 ---------------------------------- *)
\* C27: update_vector_store swaps the store handle and the retriever (k = 4)
\* and nothing else, get_source_documents only queries the retriever and
\* returns [] when the query raises, and neither changes the window storage
\* or the display log; the retriever is always the one of the current
\* handle, so every similarity query after a rebind goes to the new handle.
C27_AuxiliaryCallsKeepMemory ==
    /\ [](retriever.vector_store = vector_store /\ retriever.k = 4)
    /\ [][/\ update_vector_store(engine_return'.argument, engine_return'.raised) =>
               /\ chat_memory' = chat_memory
               /\ session_messages' = session_messages
               /\ vector_store' = engine_return'.argument
               /\ retriever'.vector_store = engine_return'.argument
               /\ retriever'.k = 4
          /\ get_source_documents(engine_return'.argument, engine_return'.value,
                                  engine_return'.raised) =>
               /\ chat_memory' = chat_memory
               /\ session_messages' = session_messages
               /\ engine_return'.retriever.vector_store = vector_store
               /\ engine_return'.retriever.k = 4
               /\ engine_return'.raised => engine_return'.value = <<>>
          /\ (pc = "retrieving" /\ pc' = "assembled") =>
               /\ queried'.vector_store = vector_store
               /\ queried'.k = 4]_vars

\* after a rebind to another handle, with turns in both logs, a similarity
\* query has gone to the new handle
C27_Witness ==
    /\ engine_return.op = "update_vector_store"
    /\ vector_store # InitialVectorStore
    /\ chat_memory # <<>>
    /\ session_messages # <<>>
    /\ pc = "assembled"
    /\ queried.vector_store = vector_store

\* get_source_documents has returned [] for a query that raised, with turns
\* in both logs
C27_WitnessSourceDocuments ==
    /\ engine_return.op = "get_source_documents"
    /\ engine_return.raised
    /\ engine_return.value = <<>>
    /\ chat_memory # <<>>
    /\ session_messages # <<>>

(* ------------------------------- C28 ---------------------------------- *)
\* C28: for every knowledge base create_knowledge_base has stored, the name
\* list_knowledge_bases reports for it derives its collection name again, so
\* get_knowledge_base and delete_knowledge_base called with the listed name
\* (as the sidebar selector and the Delete button do) reach that collection.
C28_ListedNameResolves ==
    /\ \A i \in 1..Len(list_knowledge_bases(collections)) :
           LET entry == list_knowledge_bases(collections)[i]
           IN  collection_name_of(entry.name) = entry.collection_name
    /\ kb_return.op = "open" => kb_return.value = "handle"
    /\ kb_return.op = "delete" => kb_return.value = "True"

(* ------------------------------- C30 ---------------------------------- *)
\* C30: the existence probe of a concurrent call never removes chunks a
\* create_knowledge_base has added: once a create_knowledge_base has returned
\* with success, its documents are in the collection it wrote to (no
\* delete_knowledge_base is called in these runs).
C30_ProbeKeepsCreatedChunks ==
    \A w \in Writers :
        writer[w].pc = "done" /\ writer[w].value = "ok" =>
            /\ writer[w].collection_name \in DOMAIN collections
            /\ \A i \in 1..Len(writer[w].documents) :
                   \E j \in 1..Len(collections[writer[w].collection_name]) :
                       collections[writer[w].collection_name][j] = writer[w].documents[i]

====
